---------------------------- MODULE Spec2Model ----------------------------
(***************************************************************************)
(* Model of "Python programmer/cmb_likelihood_utils.py": the numerical     *)
(* routines of the CMB likelihood exercise.                                *)
(*                                                                         *)
(* Every routine is a function of its arguments.  One run of the model is  *)
(* one call: the initial state is the caller before the call, one action   *)
(* per routine draws the arguments from bounded sets and applies the       *)
(* routine; get_C_ell_model, the only routine with a loop of its own, is   *)
(* taken one loop iteration at a time.                                     *)
(*                                                                         *)
(* Numbers.  A float is modelled by the real number it stands for, held as *)
(* an exact fraction <<num, den>> in lowest terms with den > 0.  The three *)
(* IEEE specials numpy can produce are <<1,0>> (inf), <<-1,0>> (-inf) and  *)
(* <<0,0>> (nan).  Rounding is not modelled.                               *)
(* Arrays are sequences; element l of a numpy array a (0-based) is a[l+1]. *)
(***************************************************************************)
EXTENDS Integers, Sequences, FiniteSets, TLC

VARIABLES
    fn,      \* the routine that was called ("none" before the call)
    pc,      \* "idle" | "loop" (inside get_C_ell_model's for) | "done"
    args,    \* the arguments of the call, a record
    ret,     \* the returned value, or [err |-> <exception>]
    C_ell,   \* get_C_ell_model's local array
    l        \* get_C_ell_model's loop variable

vars == <<fn, pc, args, ret, C_ell, l>>

(***************************************************************************)
(* Bounds of the model.                                                    *)
(***************************************************************************)
MaxRms == 3      \* longest rms sequence handed to get_noise_cov
MaxPix == 2      \* pixels in a map handed to get_legendre_mat and get_lnL
MaxFgPix == 5    \* pixels in a map handed to get_foreground_cov
MaxLmax == 4     \* largest lmax handed to get_C_ell_model
MaxLegL == 3     \* largest lmax handed to get_legendre_mat
MaxLen == 4      \* longest per-multipole array handed to get_signal_cov

(***************************************************************************)
(* Exact fractions.                                                        *)
(***************************************************************************)
Abs(a) == IF a < 0 THEN -a ELSE a

RECURSIVE GCD(_, _)
GCD(a, b) == IF b = 0 THEN a ELSE GCD(b, a % b)

\* the fraction n/d (d # 0) in lowest terms, denominator positive
Frac(n, d) ==
    LET g == GCD(Abs(n), Abs(d))
        s == IF d < 0 THEN -1 ELSE 1
    IN  <<(s * n) \div g, (s * d) \div g>>

I(n) == <<n, 1>>

IsFinite(a) == a[2] # 0

RAdd(a, b) == Frac(a[1] * b[2] + b[1] * a[2], a[2] * b[2])
RSub(a, b) == Frac(a[1] * b[2] - b[1] * a[2], a[2] * b[2])
RMul(a, b) == Frac(a[1] * b[1], a[2] * b[2])
RDiv(a, b) == Frac(a[1] * b[2], a[2] * b[1])
RSq(a) == RMul(a, a)
RSign(a) == IF a[1] > 0 THEN 1 ELSE IF a[1] < 0 THEN -1 ELSE 0
RLess(a, b) == a[1] * b[2] < b[1] * a[2]

RECURSIVE RSum(_)
RSum(s) == IF s = <<>> THEN I(0) ELSE RAdd(Head(s), RSum(Tail(s)))

RECURSIVE RProd(_)
RProd(s) == IF s = <<>> THEN I(1) ELSE RMul(Head(s), RProd(Tail(s)))

\* element l (0-based) of an array
At(a, k) == a[k + 1]

\* all sequences over S of length lo..hi
Seqs(S, lo, hi) == UNION {[1..n -> S] : n \in lo..hi}

(***************************************************************************)
(* get_noise_cov(rms)                                                      *)
(***************************************************************************)
\* numpy.eye(n, n)
eye(n) == [i \in 1..n |-> [j \in 1..n |-> IF i = j THEN I(1) ELSE I(0)]]

\* eye(len(rms), len(rms)) * rms ** 2: the row vector rms ** 2 is broadcast
\* along the last axis, entry (i, j) is eye[i, j] * rms[j] ** 2
\* (get_noise_cov_unsquared: the same with eye * rms, the exponent forgotten)
get_noise_cov_unsquared(rms) ==
    LET n == Len(rms)
    IN  [i \in 1..n |-> [j \in 1..n |-> RMul(eye(n)[i][j], rms[j])]]

get_noise_cov(rms) ==
    LET n == Len(rms)
    IN  [i \in 1..n |-> [j \in 1..n |-> RMul(eye(n)[i][j], RSq(rms[j]))]]

(***************************************************************************)
(* get_foreground_cov(x, y, z)                                             *)
(***************************************************************************)
large_value == 1000

\* numpy.outer(a, b)
outer(a, b) == [i \in 1..Len(a) |-> [j \in 1..Len(b) |-> RMul(a[i], b[j])]]

\* elementwise sum of two matrices of the same shape
MatAdd(A, B) == [i \in 1..Len(A) |-> [j \in 1..Len(A[i]) |-> RAdd(A[i][j], B[i][j])]]

\* scalar * matrix
MatScale(c, A) == [i \in 1..Len(A) |-> [j \in 1..Len(A[i]) |-> RMul(c, A[i][j])]]

\* get_foreground_cov_dipole_only: large_value applied to the dipole alone,
\* monopole + large_value * dipole
get_foreground_cov_dipole_only(x, y, z) ==
    LET monopole == [i \in 1..Len(x) |-> [j \in 1..Len(x) |-> I(1)]]
        dipole == MatAdd(MatAdd(outer(x, x), outer(y, y)), outer(z, z))
    IN  MatAdd(monopole, MatScale(I(large_value), dipole))

get_foreground_cov(x, y, z) ==
    LET monopole == [i \in 1..Len(x) |-> [j \in 1..Len(x) |-> I(1)]]
        dipole == MatAdd(MatAdd(outer(x, x), outer(y, y)), outer(z, z))
    IN  MatScale(I(large_value), MatAdd(monopole, dipole))


(***************************************************************************)
(* get_C_ell_model(Q, n, lmax)                                             *)
(*                                                                         *)
(* Every entry of the spectrum is a rational multiple of pi (entry 2 is    *)
(* 4 * pi / 5 * Q ** 2 and the recursion multiplies by fractions); the     *)
(* model holds each entry as that multiple, i.e. in units of pi.           *)
(*                                                                         *)
(* n is either a Python number (kind "py") or a numpy scalar (kind "np",   *)
(* what iterating over a numpy grid of n values hands in).  The two differ *)
(* only when the divisor is zero: Python raises ZeroDivisionError, numpy   *)
(* warns and yields inf, -inf or nan.                                      *)
(***************************************************************************)
\* numpy.zeros(n)
zeros(n) == [k \in 1..n |-> I(0)]

\* 4 * pi / 5 * Q ** 2, in units of pi
Quadrupole(Q) == RMul(Frac(4, 5), RSq(Q))

\* float multiplication, IEEE specials included
FMul(a, b) ==
    IF IsFinite(a) /\ IsFinite(b) THEN RMul(a, b)
    ELSE <<RSign(a) * RSign(b), 0>>

\* float division of finite operands by numpy's rules: x / 0 is inf, -inf or nan
FDiv(a, b) == IF b[1] # 0 THEN RDiv(a, b) ELSE <<RSign(a), 0>>

\* 2 * l + n - 1 and 2 * l + 5 - n
RecNum(k, n) == RSub(RAdd(I(2 * k), n), I(1))
RecDen(k, n) == RSub(I(2 * k + 5), n)

\* RecStep_inverted: the ratio upside down
RecStep_inverted(k, n, c) == FMul(FDiv(RecDen(k, n), RecNum(k, n)), c)

\* (2 * l + n - 1) / (2 * l + 5 - n) * C_ell[l]
RecStep(k, n, c) == FMul(FDiv(RecNum(k, n), RecDen(k, n)), c)

\* the values the model draws Q and n from; the n with 2l + 5 - n = 0 for a
\* loop index l are among them
QVals == {I(1), I(2), Frac(1, 2)}
NVals == {I(-3), I(0), I(1), Frac(3, 2), I(3)} \cup {I(2 * k + 5) : k \in 2..(MaxLmax - 1)}
NKinds == {"py", "np"}

NoVal == <<>>
Returned(v) == [err |-> "none", val |-> v]
Raised(e) == [err |-> e, val |-> NoVal]

\* lines 61-64: allocate the array, set the quadrupole, enter the loop
CellBegin ==
    /\ pc = "idle"
    /\ \E Q \in QVals, n \in NVals, kind \in NKinds, lmax \in 2..MaxLmax :
          /\ fn' = "get_C_ell_model"
          /\ args' = [Q |-> Q, n |-> n, kind |-> kind, lmax |-> lmax]
          /\ C_ell' = [zeros(lmax + 1) EXCEPT ![3] = Quadrupole(Q)]
          /\ l' = 2
          /\ pc' = "loop"
          /\ ret' = NoVal

\* lines 67-68: one iteration of for l in range(2, lmax)
CellIter ==
    /\ pc = "loop"
    /\ fn = "get_C_ell_model"
    /\ l < args.lmax
    /\ IF args.kind = "py" /\ RecDen(l, args.n) = I(0)
       THEN /\ ret' = Raised("ZeroDivisionError")
            /\ pc' = "done"
            /\ UNCHANGED <<C_ell, l>>
       ELSE /\ C_ell' = [C_ell EXCEPT ![l + 2] = RecStep(l, args.n, At(C_ell, l))]
            /\ l' = l + 1
            /\ UNCHANGED <<pc, ret>>
    /\ UNCHANGED <<fn, args>>

\* line 70: the loop is exhausted, return C_ell
CellReturn ==
    /\ pc = "loop"
    /\ fn = "get_C_ell_model"
    /\ l >= args.lmax
    /\ ret' = Returned(C_ell)
    /\ pc' = "done"
    /\ UNCHANGED <<fn, args, C_ell, l>>

(***************************************************************************)
(* get_legendre_coeff(lmax), get_legendre_mat(lmax, x, y, z)               *)
(***************************************************************************)
RECURSIVE Fact(_)
Fact(n) == IF n <= 0 THEN 1 ELSE n * Fact(n - 1)

RECURSIVE Pow(_, _)
Pow(b, e) == IF e = 0 THEN 1 ELSE b * Pow(b, e - 1)

\* legendre_unsigned: the coefficients without their alternating sign
legendre_unsigned(k) ==
    [j \in 1..(k + 1) |->
        LET e == j - 1
            m == e \div 2
        IN  IF e % 2 = 1 THEN I(0)
            ELSE Frac(Fact(2 * k - 2 * m),
                      Pow(2, k) * Fact(m) * Fact(k - m) * Fact(k - 2 * m))]

\* scipy.special.legendre(k): the poly1d of the degree-k Legendre polynomial,
\* as its coefficients, highest power first:
\* the coefficient of t^(k-2m) is (-1)^m (2k-2m)! / (2^k m! (k-m)! (k-2m)!)
legendre(k) ==
    [j \in 1..(k + 1) |->
        LET e == j - 1
            m == e \div 2
        IN  IF e % 2 = 1 THEN I(0)
            ELSE Frac((IF m % 2 = 0 THEN 1 ELSE -1) * Fact(2 * k - 2 * m),
                      Pow(2, k) * Fact(m) * Fact(k - m) * Fact(k - 2 * m))]

\* the list leg with leg[l] = legendre(l), l = 0..lmax
get_legendre_coeff(lmax) == [j \in 1..(lmax + 1) |-> legendre(j - 1)]

\* poly1d.__call__: Horner evaluation of the coefficients c at t
RECURSIVE Horner(_, _, _)
Horner(c, t, acc) ==
    IF c = <<>> THEN acc ELSE Horner(Tail(c), t, RAdd(RMul(acc, t), Head(c)))

polyval(c, t) == Horner(c, t, I(0))

\* dot(pos_vec, pos_vec.T) for pos_vec = vstack([x, y, z]).T
costheta(x, y, z) ==
    [i \in 1..Len(x) |-> [j \in 1..Len(x) |->
        RAdd(RAdd(RMul(x[i], x[j]), RMul(y[i], y[j])), RMul(z[i], z[j]))]]

\* p_ell_ij[i, j, l] = leg[l](costheta[i, j])
get_legendre_mat(lmax, x, y, z) ==
    LET leg == get_legendre_coeff(lmax)
        ct == costheta(x, y, z)
        ndata == Len(x)
    IN  [i \in 1..ndata |-> [j \in 1..ndata |->
            [k \in 1..(lmax + 1) |-> polyval(leg[k], ct[i][j])]]]

(***************************************************************************)
(* Pixel positions the model draws maps from: unit vectors, and two        *)
(* vectors that are not of unit norm.                                      *)
(***************************************************************************)
UnitVecs == {<<I(1), I(0), I(0)>>, <<I(0), I(1), I(0)>>,
             <<Frac(3, 5), Frac(4, 5), I(0)>>, <<Frac(2, 3), Frac(-2, 3), Frac(1, 3)>>}
Vecs == UnitVecs \cup {<<I(1), I(1), I(0)>>, <<Frac(1, 2), I(0), I(-1)>>}

Xs(pix) == [i \in 1..Len(pix) |-> pix[i][1]]
Ys(pix) == [i \in 1..Len(pix) |-> pix[i][2]]
Zs(pix) == [i \in 1..Len(pix) |-> pix[i][3]]


(***************************************************************************)
(* get_signal_cov(C_ell, beam, pixwin, p_ell_ij)                           *)
(*                                                                         *)
(* The result is the sum divided by 4 * pi; the model holds it in units of *)
(* 1 / pi, i.e. as the sum divided by 4.                                   *)
(* A one-dimensional operand is a sequence; a numpy scalar takes part in   *)
(* broadcasting as a length-1 operand does.                                *)
(***************************************************************************)
\* numpy.linspace(0, stop, num): num points from 0 to stop inclusive
linspace0(stop, num) ==
    [k \in 1..num |-> IF num = 1 THEN I(0) ELSE Frac((k - 1) * stop, num - 1)]

\* 2 * linspace(0, lmax + 1, lmax + 1) - 1
EllWeight(lmax) ==
    LET ls == linspace0(lmax + 1, lmax + 1)
    IN  [k \in 1..(lmax + 1) |-> RSub(RMul(I(2), ls[k]), I(1))]

\* a ** 2, elementwise
Squared(a) == [k \in 1..Len(a) |-> RSq(a[k])]

\* numpy broadcasting of two 1-d operands: the lengths agree or one is 1
CanBroadcast(m, n) == m = n \/ m = 1 \/ n = 1

Bc(a, k) == IF Len(a) = 1 THEN a[1] ELSE a[k]

\* a * b for 1-d operands that can be broadcast
Mul1(a, b) ==
    LET n == IF Len(a) >= Len(b) THEN Len(a) ELSE Len(b)
    IN  [k \in 1..n |-> RMul(Bc(a, k), Bc(b, k))]

\* ValueError of the first product whose operands cannot be broadcast,
\* evaluating left to right as Python does
SignalCovShapesOk(C, beam, pixwin, p) ==
    LET m1 == Len(C)
        m2 == IF m1 >= Len(beam) THEN m1 ELSE Len(beam)
        m3 == IF m2 >= Len(pixwin) THEN m2 ELSE Len(pixwin)
    IN  /\ CanBroadcast(m1, Len(beam))
        /\ CanBroadcast(m2, Len(pixwin))
        /\ CanBroadcast(m3, Len(C))
        /\ CanBroadcast(m3, Len(p[1][1]))

get_signal_cov(C, beam, pixwin, p) ==
    IF ~SignalCovShapesOk(C, beam, pixwin, p) THEN Raised("ValueError")
    ELSE
        LET lmax == Len(C) - 1
            w == Mul1(Mul1(Mul1(EllWeight(lmax), Squared(beam)), Squared(pixwin)), C)
            S_cov == [i \in 1..Len(p) |-> [j \in 1..Len(p) |->
                        RSum(Mul1(w, p[i][j]))]]
        IN  Returned(MatScale(Frac(1, 4), S_cov))

(***************************************************************************)
(* get_lnL(data, cov)                                                      *)
(*                                                                         *)
(* The model draws covariances whose Cholesky factor is rational, so that  *)
(* the square roots are exact.  The returned float x.x + sum(ln(diag)) is  *)
(* held as the pair quad = x.x and lnarg = prod(diag): the value is        *)
(* quad + ln(lnarg).                                                       *)
(***************************************************************************)
\* the square root of a fraction whose numerator and denominator are squares
ISqrt(n) == CHOOSE k \in 0..n : k * k = n
RSqrt(a) == <<ISqrt(a[1]), ISqrt(a[2])>>

\* sum over k < j of U[k][a] * U[k][b]
ColDot(U, j, a, b) == RSum([k \in 1..(j - 1) |-> RMul(U[k][a], U[k][b])])

\* LAPACK potrf, upper: row j of the factor from the rows above it and the
\* upper triangle of A; stops at the first pivot that is not positive
RECURSIVE CholRows(_, _, _)
CholRows(A, j, U) ==
    IF j > Len(A) THEN Returned(U)
    ELSE
        LET ajj == RSub(A[j][j], ColDot(U, j, j, j))
        IN  IF ~RLess(I(0), ajj) THEN Raised("LinAlgError")
            ELSE
                LET d == RSqrt(ajj)
                    row == [i \in 1..Len(A) |->
                              IF i < j THEN I(0)
                              ELSE IF i = j THEN d
                              ELSE RDiv(RSub(A[j][i], ColDot(U, j, j, i)), d)]
                IN  CholRows(A, j + 1, Append(U, row))

\* scipy.linalg.cholesky(a) with its defaults lower=False: the upper
\* triangular U with a = U^T U, read from the upper triangle of a
cholesky(A) == CholRows(A, 1, <<>>)

\* scipy.linalg.solve_triangular(a, b) with its defaults lower=False,
\* trans=0: solves a x = b for upper triangular a by back substitution
RECURSIVE BackSub(_, _, _, _)
BackSub(U, b, i, x) ==
    IF i = 0 THEN x
    ELSE
        LET n == Len(U)
            s == RSum([k \in 1..(n - i) |-> RMul(U[i][i + k], x[i + k])])
            xi == RDiv(RSub(b[i], s), U[i][i])
        IN  BackSub(U, b, i - 1, [x EXCEPT ![i] = xi])

solve_triangular(U, b) == BackSub(U, b, Len(U), [k \in 1..Len(U) |-> I(0)])

diagonal(A) == [k \in 1..Len(A) |-> A[k][k]]

\* Sum(ln(diagonal(L))), as the number whose logarithm it is
lndet(L) == RProd(diagonal(L))

VecDot(a, b) == RSum([k \in 1..Len(a) |-> RMul(a[k], b[k])])

get_lnL(data, cov) ==
    LET c == cholesky(cov)
    IN  IF c.err # "none" THEN c
        ELSE
            LET L == c.val
                x == solve_triangular(L, data)
            IN  Returned([quad |-> VecDot(x, x), lnarg |-> lndet(L)])


(***************************************************************************)
(* The arguments the model draws.                                          *)
(***************************************************************************)
RmsVals == {I(0), I(1), I(2), I(3), Frac(1, 2)}

\* the sky get_foreground_cov's maps are cut from, in pixel order
FgSky == <<
    <<I(1), I(0), I(0)>>, <<I(0), I(1), I(0)>>, <<I(0), I(0), I(1)>>,
    <<I(0), I(0), I(-1)>>, <<I(1), I(1), I(0)>>,
    <<Frac(1, 2), I(0), I(-1)>>, <<I(0), Frac(-1, 2), Frac(1, 2)>> >>

\* the elements of a set of pixel indices, in increasing order
RECURSIVE Ordered(_)
Ordered(S) ==
    IF S = {} THEN <<>>
    ELSE LET m == CHOOSE a \in S : \A b \in S : a <= b
         IN  <<m>> \o Ordered(S \ {m})

\* maps of 1..MaxFgPix distinct pixels of the sky
FgMaps ==
    {[k \in 1..Cardinality(S) |-> FgSky[Ordered(S)[k]]] :
        S \in {T \in SUBSET (1..Len(FgSky)) : Cardinality(T) \in 1..MaxFgPix}}

\* maps of 1..MaxPix pixels
PixMaps == Seqs(Vecs, 1, MaxPix)

\* spectra, beams and pixel windows handed to get_signal_cov
SpecInputs == Seqs({I(0), I(3)}, 1, MaxLen)
BeamInputs == {[k \in 1..n |-> I(1)] : n \in 1..MaxLen}
                 \cup {[k \in 1..n |-> I(k)] : n \in 1..MaxLen}
PixwinInputs == {[k \in 1..n |-> I(1)] : n \in 1..MaxLen}
                   \cup {[k \in 1..n |-> Frac(1, k)] : n \in 1..MaxLen}
SigMaps == {<< <<I(1), I(0), I(0)>>, <<Frac(3, 5), Frac(4, 5), I(0)>> >>,
            << <<Frac(2, 3), Frac(-2, 3), Frac(1, 3)>> >>}

\* covariances handed to get_lnL: U^T U for an upper triangular U with
\* diagonal in {1, 2} and entries above it in {0, 1} ("spd"); the same with
\* the last diagonal entry negated ("indef", symmetric with a negative
\* eigenvalue); the same with the lower left entry raised by one ("lower",
\* not symmetric, upper triangle untouched)
Factors(n) ==
    {U \in [1..n -> [1..n -> {I(0), I(1), I(2)}]] :
        \A i, j \in 1..n :
            /\ i > j => U[i][j] = I(0)
            /\ i = j => U[i][j] # I(0)
            /\ i < j => U[i][j] # I(2)}

Gram(U) ==
    [i \in 1..Len(U) |-> [j \in 1..Len(U) |->
        RSum([k \in 1..Len(U) |-> RMul(U[k][i], U[k][j])])]]

Perturb(A, kind) ==
    LET n == Len(A)
    IN  IF kind = "indef" THEN [A EXCEPT ![n][n] = RSub(I(0), A[n][n])]
        ELSE IF kind = "lower" /\ n > 1 THEN [A EXCEPT ![n][1] = RAdd(A[n][1], I(1))]
        ELSE A

CovInputs(n) == {Perturb(Gram(U), kind) : U \in Factors(n), kind \in {"spd", "indef", "lower"}}

DataVals == {I(0), I(1), I(-2)}

(***************************************************************************)
(* The calls.                                                              *)
(***************************************************************************)
Init ==
    /\ fn = "none"
    /\ pc = "idle"
    /\ args = NoVal
    /\ ret = NoVal
    /\ C_ell = <<>>
    /\ l = 0

NoiseCov ==
    /\ pc = "idle"
    /\ \E rms \in Seqs(RmsVals, 1, MaxRms) :
          /\ fn' = "get_noise_cov"
          /\ args' = [rms |-> rms]
          /\ ret' = Returned(get_noise_cov(rms))
    /\ pc' = "done"
    /\ UNCHANGED <<C_ell, l>>

ForegroundCov ==
    /\ pc = "idle"
    /\ \E pix \in FgMaps :
          /\ fn' = "get_foreground_cov"
          /\ args' = [x |-> Xs(pix), y |-> Ys(pix), z |-> Zs(pix)]
          /\ ret' = Returned(get_foreground_cov(Xs(pix), Ys(pix), Zs(pix)))
    /\ pc' = "done"
    /\ UNCHANGED <<C_ell, l>>

LegendreMat ==
    /\ pc = "idle"
    /\ \E lmax \in 0..MaxLegL, pix \in PixMaps :
          /\ fn' = "get_legendre_mat"
          /\ args' = [lmax |-> lmax, x |-> Xs(pix), y |-> Ys(pix), z |-> Zs(pix)]
          /\ ret' = Returned(get_legendre_mat(lmax, Xs(pix), Ys(pix), Zs(pix)))
    /\ pc' = "done"
    /\ UNCHANGED <<C_ell, l>>

SignalCov ==
    /\ pc = "idle"
    /\ \E C \in SpecInputs, beam \in BeamInputs, pixwin \in PixwinInputs,
          lp \in 0..(MaxLen - 1), pix \in SigMaps :
          LET p == get_legendre_mat(lp, Xs(pix), Ys(pix), Zs(pix))
          IN  /\ fn' = "get_signal_cov"
              /\ args' = [C_ell |-> C, beam |-> beam, pixwin |-> pixwin, p_ell_ij |-> p]
              /\ ret' = get_signal_cov(C, beam, pixwin, p)
    /\ pc' = "done"
    /\ UNCHANGED <<C_ell, l>>

LnL ==
    /\ pc = "idle"
    /\ \E n \in 1..MaxPix :
          \E cov \in CovInputs(n), data \in [1..n -> DataVals] :
              /\ fn' = "get_lnL"
              /\ args' = [data |-> data, cov |-> cov]
              /\ ret' = get_lnL(data, cov)
    /\ pc' = "done"
    /\ UNCHANGED <<C_ell, l>>

Next ==
    \/ NoiseCov
    \/ ForegroundCov
    \/ CellBegin
    \/ CellIter
    \/ CellReturn
    \/ LegendreMat
    \/ SignalCov
    \/ LnL

Spec == Init /\ [][Next]_vars


(***************************************************************************)
(* Linear algebra the properties are stated with.  None of it is used by   *)
(* the routines above.                                                     *)
(***************************************************************************)
\* A without row r and column c
Minor(A, r, c) ==
    [i \in 1..(Len(A) - 1) |-> [j \in 1..(Len(A) - 1) |->
        A[IF i < r THEN i ELSE i + 1][IF j < c THEN j ELSE j + 1]]]

\* the determinant, by expansion along the first row
RECURSIVE Det(_)
Det(A) ==
    IF Len(A) = 0 THEN I(1)
    ELSE RSum([j \in 1..Len(A) |->
            RMul(RMul(I(IF j % 2 = 1 THEN 1 ELSE -1), A[1][j]), Det(Minor(A, 1, j)))])

\* the rows and columns of A with index in the set S
Principal(A, S) ==
    [i \in 1..Cardinality(S) |-> [j \in 1..Cardinality(S) |->
        A[Ordered(S)[i]][Ordered(S)[j]]]]

IsSymmetric(A) == \A i, j \in 1..Len(A) : A[i][j] = A[j][i]

\* Sylvester's criterion
IsSPD(A) ==
    /\ IsSymmetric(A)
    /\ \A n \in 1..Len(A) : RLess(I(0), Det(Principal(A, 1..n)))

\* A with column c replaced by the vector b
WithColumn(A, c, b) ==
    [i \in 1..Len(A) |-> [j \in 1..Len(A) |-> IF j = c THEN b[i] ELSE A[i][j]]]

\* d^T A^-1 d by Cramer's rule
QuadForm(A, d) ==
    RSum([i \in 1..Len(A) |-> RMul(d[i], RDiv(Det(WithColumn(A, i, d)), Det(A)))])

\* x_i x_j + y_i y_j + z_i z_j
PairDot(a, i, j) ==
    RAdd(RAdd(RMul(a.x[i], a.x[j]), RMul(a.y[i], a.y[j])), RMul(a.z[i], a.z[j]))

\* the factors the coordinates are scaled by, and k * a
ScaleVals == {I(2), I(-3), Frac(1, 2)}

Scaled(k, a) == [i \in 1..Len(a) |-> RMul(k, a[i])]

\* no divisor 2l + 5 - n of the spectrum recursion is zero
NoZeroDivisor ==
    \A k \in 2..(args.lmax - 1) : RSub(I(2 * k + 5), args.n) # I(0)

\* (2l + n - 1) / (2l + 5 - n)
Ratio(k, n) == RDiv(RSub(RAdd(I(2 * k), n), I(1)), RSub(I(2 * k + 5), n))

\* the four per-multipole lengths handed to get_signal_cov are equal
LengthsAgree ==
    /\ Len(args.beam) = Len(args.C_ell)
    /\ Len(args.pixwin) = Len(args.C_ell)
    /\ Len(args.p_ell_ij[1][1]) = Len(args.C_ell)

\* (2l + 1) * beam[l]^2 * pixwin[l]^2 * C_ell[l] * p_ell_ij[i, j, l]
SumTerm(i, j, k) ==
    RMul(RMul(RMul(RMul(I(2 * k + 1), RMul(At(args.beam, k), At(args.beam, k))),
                   RMul(At(args.pixwin, k), At(args.pixwin, k))),
              At(args.C_ell, k)),
         At(args.p_ell_ij[i][j], k))


(***************************************************************************)
(* C8.  get_noise_cov(rms) returns the N x N matrix with entry (i, i)      *)
(* equal to rms[i] ** 2 and every entry off the diagonal exactly 0, for    *)
(* finite non-negative rms (zeros allowed); the caller's rms, held in      *)
(* args, is what was handed in.                                            *)
(***************************************************************************)
C8_NoiseCovIsDiagonalOfSquares ==
    fn = "get_noise_cov" =>
        /\ ret.err = "none"
        /\ Len(ret.val) = Len(args.rms)
        /\ \A i \in 1..Len(args.rms) :
              /\ Len(ret.val[i]) = Len(args.rms)
              /\ \A j \in 1..Len(args.rms) :
                    ret.val[i][j] = IF i = j THEN RMul(args.rms[i], args.rms[i]) ELSE I(0)

C8_Witness ==
    /\ fn = "get_noise_cov"
    /\ args.rms = <<I(1), I(2), I(3)>>
    /\ ret.val = << <<I(1), I(0), I(0)>>, <<I(0), I(4), I(0)>>, <<I(0), I(0), I(9)>> >>

(***************************************************************************)
(* C10.  get_foreground_cov(x, y, z) returns F with                        *)
(* F[i, j] = 1000 * (1 + x_i x_j + y_i y_j + z_i z_j); F is symmetric, has *)
(* rank at most 4 (F is symmetric, so this is: every principal minor of    *)
(* order 5 vanishes; the minors are taken of F / 1000, which has the rank  *)
(* of F), and scaling the coordinates by k multiplies the                  *)
(* dipole part F - 1000 by k ** 2 and leaves the monopole part 1000.       *)
(***************************************************************************)
C10_ForegroundCovIsMonopolePlusDipole ==
    fn = "get_foreground_cov" =>
        LET n == Len(args.x)
            F == ret.val
        IN  /\ ret.err = "none"
            /\ Len(F) = n
            /\ \A i, j \in 1..n :
                  /\ F[i][j] = RMul(I(1000), RAdd(I(1), PairDot(args, i, j)))
                  /\ F[i][j] = F[j][i]
            /\ \A S \in SUBSET (1..n) :
                  Cardinality(S) = 5 => Det(Principal(MatScale(Frac(1, 1000), F), S)) = I(0)
            /\ \A k \in ScaleVals :
                  LET G == get_foreground_cov(Scaled(k, args.x), Scaled(k, args.y),
                                              Scaled(k, args.z))
                  IN  \A i, j \in 1..n :
                         RSub(G[i][j], I(1000)) = RMul(RMul(k, k), RSub(F[i][j], I(1000)))

\* a map of five pixels whose foreground covariance has rank exactly 4
C10_Witness ==
    /\ fn = "get_foreground_cov"
    /\ Len(args.x) = 5
    /\ \E S \in SUBSET (1..5) :
          Cardinality(S) = 4 /\ Det(Principal(MatScale(Frac(1, 1000), ret.val), S)) # I(0)

(***************************************************************************)
(* C4.  With no zero divisor 2l + 5 - n for l = 2..lmax-1,                 *)
(* get_C_ell_model(Q, n, lmax) returns C of length lmax + 1 with           *)
(* C[0] = C[1] = 0, C[2] = (4 pi / 5) Q ** 2 and                           *)
(* C[l+1] = C[l] * (2l + n - 1) / (2l + 5 - n) for l = 2..lmax-1, the      *)
(* entries being written in increasing l: when the loop is at l, entries   *)
(* up to l have their final values and the entries above l are still 0.    *)
(***************************************************************************)
C4_SpectrumFollowsRecursion ==
    (fn = "get_C_ell_model" /\ NoZeroDivisor) =>
        /\ Len(C_ell) = args.lmax + 1
        /\ At(C_ell, 0) = I(0)
        /\ At(C_ell, 1) = I(0)
        /\ At(C_ell, 2) = RMul(Frac(4, 5), RMul(args.Q, args.Q))
        /\ l \in 2..args.lmax
        /\ \A k \in 2..(l - 1) : At(C_ell, k + 1) = RMul(At(C_ell, k), Ratio(k, args.n))
        /\ \A k \in (l + 1)..args.lmax : At(C_ell, k) = I(0)
        /\ pc = "done" => (ret = Returned(C_ell) /\ l = args.lmax)

\* lmax = 4, Q = 1, n = 1: the ratios are 4/8 and 6/10
C4_Witness ==
    /\ fn = "get_C_ell_model"
    /\ pc = "done"
    /\ args.Q = I(1) /\ args.n = I(1) /\ args.lmax = 4
    /\ ret.err = "none"
    /\ ret.val = <<I(0), I(0), Frac(4, 5), Frac(2, 5), Frac(6, 25)>>

(***************************************************************************)
(* C9.  Slice l of get_legendre_mat(lmax, x, y, z) is the Legendre         *)
(* polynomial of degree l (P_0 = 1, P_1 = t,                               *)
(* (l+1) P_{l+1}(t) = (2l+1) t P_l(t) - l P_{l-1}(t)) of the pairwise dot  *)
(* products: slice 0 is all ones, slice 1 the dot products, every slice is *)
(* symmetric, and for unit vectors the diagonal of every slice is 1.       *)
(***************************************************************************)
C9_SlicesAreLegendre ==
    fn = "get_legendre_mat" =>
        LET n == Len(args.x)
            P == ret.val
        IN  /\ ret.err = "none"
            /\ Len(P) = n
            /\ \A i, j \in 1..n :
                  LET t == PairDot(args, i, j)
                  IN  /\ Len(P[i][j]) = args.lmax + 1
                      /\ At(P[i][j], 0) = I(1)
                      /\ args.lmax >= 1 => At(P[i][j], 1) = t
                      /\ \A k \in 1..(args.lmax - 1) :
                            RMul(I(k + 1), At(P[i][j], k + 1)) =
                               RSub(RMul(RMul(I(2 * k + 1), t), At(P[i][j], k)),
                                    RMul(I(k), At(P[i][j], k - 1)))
                      /\ P[i][j] = P[j][i]
            /\ \A i \in 1..n :
                  PairDot(args, i, i) = I(1) =>
                     \A k \in 0..args.lmax : At(P[i][i], k) = I(1)

\* two distinct unit vectors, degree 3 reached: P_2(0) = -1/2, P_3(0) = 0
C9_Witness ==
    /\ fn = "get_legendre_mat"
    /\ args.lmax = 3
    /\ Len(args.x) = 2
    /\ PairDot(args, 1, 1) = I(1) /\ PairDot(args, 2, 2) = I(1)
    /\ PairDot(args, 1, 2) = I(0)
    /\ ret.val[1][2] = <<I(1), I(0), Frac(-1, 2), I(0)>>
    /\ ret.val[1][1] = <<I(1), I(1), I(1), I(1)>>


(***************************************************************************)
(* C1.  For C_ell, beam, pixwin of length lmax + 1 and p_ell_ij of shape   *)
(* N x N x (lmax + 1), get_signal_cov returns S with                       *)
(* S[i, j] = (1 / 4 pi) * sum over l of                                    *)
(*           (2l + 1) * beam[l]^2 * pixwin[l]^2 * C_ell[l] * p_ell_ij[i,j,l] *)
(* (held here in units of 1 / pi): the weight of slice l is 2l + 1.        *)
(***************************************************************************)
C1_SignalCovWeightsAre2lPlus1 ==
    (fn = "get_signal_cov" /\ LengthsAgree) =>
        /\ ret.err = "none"
        /\ \A i, j \in 1..Len(args.p_ell_ij) :
              ret.val[i][j] =
                 RMul(Frac(1, 4), RSum([k \in 1..Len(args.C_ell) |-> SumTerm(i, j, k - 1)]))

(***************************************************************************)
(* C7.  get_signal_cov fails with an error whenever the lengths of C_ell,  *)
(* beam, pixwin and the last axis of p_ell_ij are not all equal; no        *)
(* operand of length 1 is silently broadcast.                              *)
(***************************************************************************)
C7_MismatchedLengthsFail ==
    (fn = "get_signal_cov" /\ ~LengthsAgree) => ret.err # "none"

(***************************************************************************)
(* C2.  For a symmetric positive definite cov the log-determinant term of  *)
(* get_lnL is ln(det cov); for data of all zeros get_lnL returns exactly   *)
(* ln(det cov).                                                            *)
(***************************************************************************)
C2_LogDetTermIsLnDet ==
    (fn = "get_lnL" /\ IsSPD(args.cov)) =>
        /\ ret.err = "none"
        /\ ret.val.lnarg = Det(args.cov)
        /\ (\A i \in 1..Len(args.data) : args.data[i] = I(0)) => ret.val.quad = I(0)

(***************************************************************************)
(* C3.  For a symmetric positive definite cov, diagonal or not, the data   *)
(* term of get_lnL is d^T cov^-1 d.                                        *)
(***************************************************************************)
C3_DataTermIsQuadraticForm ==
    (fn = "get_lnL" /\ IsSPD(args.cov)) =>
        /\ ret.err = "none"
        /\ ret.val.quad = QuadForm(args.cov, args.data)

(***************************************************************************)
(* C6.  get_lnL returns no value for a covariance that is not symmetric    *)
(* positive definite, be it symmetric with a negative eigenvalue or not    *)
(* symmetric: the call ends in the error of the Cholesky factorization.    *)
(***************************************************************************)
C6_NotSPDIsRejected ==
    (fn = "get_lnL" /\ ~IsSPD(args.cov)) => ret.err = "LinAlgError"

(***************************************************************************)
(* C5.  If 2l + 5 - n is zero for some l in 2..lmax-1, get_C_ell_model     *)
(* fails with an error: it returns no spectrum, in particular none with an *)
(* infinite or NaN entry.                                                  *)
(***************************************************************************)
C5_ZeroDivisorFails ==
    (fn = "get_C_ell_model" /\ pc = "done" /\ ~NoZeroDivisor) => ret.err # "none"

=============================================================================
